---- MODULE Spec2Model ----
(***************************************************************************)
(* A model of sw-manager.py: the dependency-graph builder (addDep,         *)
(* buildDepGraph), the build command (handleBuild) with the sequential     *)
(* task executor it hands the graph to, the image assembly pipeline        *)
(* (makeImage, applyOverlay, applyFiles, launchQemu), and the command line *)
(* (main) with the launch command (handleLaunch, launchSpike, launchQemu). *)
(*                                                                         *)
(* A config is a Python dict: here a function whose DOMAIN is the set of   *)
(* keys present, so that  'img' in config  is  "img" \in DOMAIN config.    *)
(***************************************************************************)
EXTENDS Integers, Sequences, FiniteSets, TLC

VARIABLES
    cfgs,        \* ConfigManager: top-level config key -> resolved config dict
    workloads,   \* doitLoader.workloads: the list of task dicts built so far
    gpc,         \* position in buildDepGraph
    gtodo,       \* top-level configs the loop of buildDepGraph has not visited
    jtodo,       \* jobs of the config being visited that are not yet added
    args,        \* the parsed command line: config_file, job, and with main command, spike, initramfs
    epc,         \* position of main, of the command and of the executor run
    requested,   \* binList + imgList, the targets handed to the executor
    doneTasks,   \* tasks the executor has completed or judged up to date
    cur,         \* name of the config whose makeImage is executing, or ""
    built,       \* the executor's record of tasks that succeeded in an earlier invocation
    inv,         \* number of the current invocation of the build command
    pc,          \* position in makeImage
    af,          \* the frame of the applyFiles call in progress
    trace,       \* what the current makeImage has done so far, in order
    mounted,     \* the images loop-mounted on mnt, the last one on top
    emu,         \* whether an emulator subprocess is running
    image,       \* image path -> content, for the image files that exist
    exists,      \* the scripts that exist on the host
    bins,        \* the binaries that exist on the host
    fresh        \* image path -> content delivered by a makeImage that found no file there

gvars == <<workloads, gpc, gtodo, jtodo>>
evars == <<args, epc, requested, doneTasks, cur, built, inv>>
pvars == <<pc, af, trace, mounted, emu>>
fvars == <<image, exists, bins, fresh>>
vars == <<cfgs, gvars, evars, pvars, fvars>>

-----------------------------------------------------------------------------
(* Bounds *)

\* Longest 'files' list a config is given.
MaxFiles == 2

\* Number of times the build command is invoked, one after the other, on the
\* same host.
MaxRuns == 3

-----------------------------------------------------------------------------
(* Helpers *)

Range(s) == {s[i] : i \in 1..Len(s)}

\* The empty dict.
E == <<>>

\* One optional key of a dict.
Opt(key, present, value) == IF present THEN key :> value ELSE E

Has(config, key) == key \in DOMAIN config

\* Python's None, where a value of a dict may be None.
None == "None"

SeqsUpTo(S, n) == UNION {[1..k -> S] : k \in 0..n}

\* No applyFiles call in progress.
NoAf == [pc |-> "none", img |-> "", files |-> <<>>, i |-> 0, raised |-> FALSE,
         ret |-> "", ends |-> ""]

-----------------------------------------------------------------------------
(* The host file system the graph builder looks at *)

\* os.walk(src) for the directories among the overlay sources: the files
\* below each, in walk order.  Any other source (a file, a glob) is not a
\* directory.
DirTree == [dirA |-> <<"dirA/f1", "dirA/sub/f2">>]

isdir(src) == src \in DOMAIN DirTree

FileSpec(src, dst) == [src |-> src, dst |-> dst]

\* The overlay entries configs are written with.
UserFileSpecs == {FileSpec("dirA", "/etc/cfg"), FileSpec("fileB", "/etc/cfg")}

-----------------------------------------------------------------------------
(* Resolved configs, as the config layer hands them over *)

distros == <<"br", "bare">>

BinPath(name) == name \o "-bin"
ImgPath(name) == name \o ".img"

\* The distro configs: br has a base image, bare has none.
DistroCfg(d) ==
    ("name" :> d) @@ ("builder" :> d) @@ Opt("img", d = "br", ImgPath(d))

\* A workload or job config.  ch says which optional keys are present.
Cfg(name, base, ch, jobs) ==
    ("name" :> name) @@ ("bin" :> BinPath(name)) @@ ("builder" :> "br")
    @@ ("distro" :> ch.distro) @@ ("workdir" :> "workdir")
    @@ Opt("img", ch.img, ImgPath(name))
    @@ Opt("base-img", ch.base, base)
    @@ Opt("linux-config", ch.lc, "linux.kfrag")
    @@ Opt("initramfs", ch.ir, TRUE)
    @@ Opt("files", ch.files.has, ch.files.list)
    @@ Opt("host_init", ch.hi, name \o "/host-init.sh")
    @@ Opt("init", ch.init, name \o "/init.sh")
    @@ Opt("runSpec", ch.rs # "absent",
           [command |-> IF ch.rs = "command" THEN "echo hi" ELSE None,
            path    |-> IF ch.rs = "path" THEN name \o "/run.sh" ELSE None])
    @@ Opt("cfg-file", ch.cf, name \o ".json")
    @@ Opt("jobs", DOMAIN jobs # {}, jobs)

NoFiles == [has |-> FALSE, list |-> <<>>]

\* No 'files' key, or a list of up to MaxFiles entries.
FilesChoices ==
    {NoFiles} \cup {[has |-> TRUE, list |-> fs] : fs \in SeqsUpTo(UserFileSpecs, MaxFiles)}

\* Every combination of optional keys that matters to the graph builder.
GraphChoices ==
    { [img |-> TRUE, base |-> b, lc |-> l, ir |-> i, files |-> f, hi |-> FALSE,
       init |-> n, rs |-> r, cf |-> c, distro |-> "br"] :
         b \in BOOLEAN, l \in BOOLEAN, i \in BOOLEAN, f \in FilesChoices,
         n \in BOOLEAN, r \in {"absent", "command", "path"}, c \in BOOLEAN }
    \cup
    { [img |-> FALSE, base |-> FALSE, lc |-> l, ir |-> i, files |-> NoFiles,
       hi |-> FALSE, init |-> FALSE, rs |-> "absent", cf |-> TRUE, distro |-> d] :
         l \in BOOLEAN, i \in BOOLEAN, d \in {"br", "bare"} }

\* The combinations a job is given.
JobChoices ==
    { [img |-> m, base |-> m, lc |-> FALSE, ir |-> i, files |-> NoFiles, hi |-> FALSE,
       init |-> n, rs |-> "absent", cf |-> TRUE, distro |-> "br"] :
         m \in BOOLEAN, i \in BOOLEAN, n \in BOOLEAN }

\* A job's name is namespaced with its parent's; the jobs dict is keyed by it.
JobName(parent, short) == parent \o "-" \o short

\* A job is built on its parent's image when the parent has one, else on the
\* distro's.
JobBase(parentHasImg, parent) == IF parentHasImg THEN ImgPath(parent) ELSE ImgPath("br")

JobsOf(parent, parentHasImg, jch) ==
    JobName(parent, "j0") :> Cfg(JobName(parent, "j0"), JobBase(parentHasImg, parent), jch, E)

\* The configs the program is run on: the two distros, workload w with none
\* or one job, and optionally a second workload v built on w's image, with a
\* job of the same short name.
VCfg(wHasImg) ==
    Cfg("v", IF wHasImg THEN ImgPath("w") ELSE ImgPath("br"),
        [img |-> TRUE, base |-> TRUE, lc |-> TRUE, ir |-> FALSE, files |-> NoFiles,
         hi |-> FALSE, init |-> TRUE, rs |-> "absent", cf |-> TRUE, distro |-> "br"],
        JobsOf("v", TRUE, [img |-> TRUE, base |-> TRUE, lc |-> FALSE, ir |-> FALSE,
                           files |-> NoFiles, hi |-> FALSE, init |-> FALSE,
                           rs |-> "absent", cf |-> TRUE, distro |-> "br"]))

CfgSet(ch, js, v) ==
    ("br" :> DistroCfg("br")) @@ ("bare" :> DistroCfg("bare"))
    @@ ("w" :> Cfg("w", ImgPath("br"), ch, js))
    @@ Opt("v", v, VCfg(ch.img))

-----------------------------------------------------------------------------
(* addDep: the task dicts of one config *)

Task(name, action, file_dep, task_dep) ==
    [name |-> name, action |-> action, targets |-> <<name>>,
     file_dep |-> file_dep, task_dep |-> task_dep]

\* The rule for the binary.
BinTask(config) ==
    Task(config["bin"], <<"makeBin", config["name"], FALSE>>,
         IF Has(config, "linux-config") THEN <<config["linux-config"]>> ELSE <<>>,
         <<>>)

\* An initramfs rule that takes the name and target of the plain binary.
InitramfsTask_BinName(config) ==
    Task(config["bin"], <<"makeBin", config["name"], TRUE>>,
         <<config["img"]>> \o
             (IF Has(config, "linux-config") THEN <<config["linux-config"]>> ELSE <<>>),
         <<config["img"]>>)

\* The rule for the initramfs version; evaluated only when config has 'img'.
InitramfsTask(config) ==
    Task(config["bin"] \o "-initramfs", <<"makeBin", config["name"], TRUE>>,
         <<config["img"]>> \o
             (IF Has(config, "linux-config") THEN <<config["linux-config"]>> ELSE <<>>),
         <<config["img"]>>)

\* The file_deps one overlay entry adds: a directory is walked.
RECURSIVE OverlayDeps(_)
OverlayDeps(files) ==
    IF files = <<>> THEN <<>>
    ELSE (IF isdir(Head(files).src) THEN DirTree[Head(files).src] ELSE <<Head(files).src>>)
         \o OverlayDeps(Tail(files))

\* A builder that forgets that a directory source must be walked.
ImgFileDeps_NoWalk(config) ==
    (IF Has(config, "base-img") THEN <<config["base-img"]>> ELSE <<>>)
    \o (IF Has(config, "files")
        THEN [i \in 1..Len(config["files"]) |-> config["files"][i].src] ELSE <<>>)
    \o (IF Has(config, "init") THEN <<config["init"]>> ELSE <<>>)
    \o (IF Has(config, "runSpec") /\ config["runSpec"].path # None
        THEN <<config["runSpec"].path>> ELSE <<>>)
    \o (IF Has(config, "cfg-file") THEN <<config["cfg-file"]>> ELSE <<>>)

ImgFileDeps(config) ==
    (IF Has(config, "base-img") THEN <<config["base-img"]>> ELSE <<>>)
    \o (IF Has(config, "files") THEN OverlayDeps(config["files"]) ELSE <<>>)
    \o (IF Has(config, "init") THEN <<config["init"]>> ELSE <<>>)
    \o (IF Has(config, "runSpec") /\ config["runSpec"].path # None
        THEN <<config["runSpec"].path>> ELSE <<>>)
    \o (IF Has(config, "cfg-file") THEN <<config["cfg-file"]>> ELSE <<>>)

\* A builder that forgets that the target-init script runs on the workload's
\* binary.
ImgTaskDeps_NoBin(config) ==
    IF Has(config, "base-img") THEN <<config["base-img"]>> ELSE <<>>

\* A builder that makes the image of an initramfs workload wait for the
\* initramfs binary instead of the plain one.
ImgTaskDeps_Initramfs(config) ==
    (IF Has(config, "base-img") THEN <<config["base-img"]>> ELSE <<>>)
    \o (IF Has(config, "init")
        THEN <<IF Has(config, "initramfs") THEN config["bin"] \o "-initramfs"
               ELSE config["bin"]>>
        ELSE <<>>)

ImgTaskDeps(config) ==
    (IF Has(config, "base-img") THEN <<config["base-img"]>> ELSE <<>>)
    \o (IF Has(config, "init") THEN <<config["bin"]>> ELSE <<>>)

\* The rule for the image.
ImgTask(config) ==
    Task(config["img"], <<"makeImage", config["name"]>>,
         ImgFileDeps(config), ImgTaskDeps(config))

\* An addDep that leaves out the binary rule of a config that has no kernel
\* config and is not based on 'bare'.
addDep_SkipUnbuildable(ws, config) ==
    LET w1 == IF Has(config, "linux-config") \/ config["distro"] = "bare"
              THEN Append(ws, BinTask(config)) ELSE ws
    IN IF Has(config, "initramfs") /\ ~Has(config, "img")
       THEN [ok |-> FALSE, workloads |-> w1]
       ELSE LET w2 == IF Has(config, "initramfs") THEN Append(w1, InitramfsTask(config))
                      ELSE w1
            IN [ok |-> TRUE,
                workloads |-> IF Has(config, "img") THEN Append(w2, ImgTask(config)) ELSE w2]

\* addDep(loader, config): the list after the call, and whether the call
\* returned (ok) or raised KeyError on config['img'] (line 110), in which case
\* the binary rule has already been appended.
addDep(ws, config) ==
    LET w1 == Append(ws, BinTask(config)) IN
    IF Has(config, "initramfs") /\ ~Has(config, "img")
    THEN [ok |-> FALSE, workloads |-> w1]
    ELSE LET w2 == IF Has(config, "initramfs") THEN Append(w1, InitramfsTask(config))
                   ELSE w1
         IN [ok |-> TRUE,
             workloads |-> IF Has(config, "img") THEN Append(w2, ImgTask(config)) ELSE w2]

-----------------------------------------------------------------------------
(* buildDepGraph *)

\* The base-distro tasks: no file_dep and no task_dep key.
DistroTask(dCfg) ==
    [name |-> dCfg["img"], action |-> <<"buildBaseImage", dCfg["builder"]>>,
     targets |-> <<dCfg["img"]>>, uptodate |-> <<"upToDate", dCfg["builder"]>>]

RECURSIVE DistroTasks(_)
DistroTasks(ds) ==
    IF ds = <<>> THEN <<>>
    ELSE (IF Has(cfgs[Head(ds)], "img") THEN <<DistroTask(cfgs[Head(ds)])>> ELSE <<>>)
         \o DistroTasks(Tail(ds))

\* loader = doitLoader(), then the loop over distros.
DefineDistros ==
    /\ gpc = "distros"
    /\ workloads' = DistroTasks(distros)
    /\ gtodo' = DOMAIN cfgs \ Range(distros)
    /\ gpc' = "configs"
    /\ UNCHANGED <<cfgs, jtodo, evars, pvars, fvars>>

\* One iteration of the loop over the non-distro configs, in the set's
\* (arbitrary) order: addDep of the config; its jobs come next.
AddConfig ==
    /\ gpc = "configs" /\ jtodo = {}
    /\ \E cfgPath \in gtodo :
         LET config == cfgs[cfgPath]
             r == addDep(workloads, config)
         IN /\ workloads' = r.workloads
            /\ gtodo' = gtodo \ {cfgPath}
            /\ IF ~r.ok THEN gpc' = "error" /\ jtodo' = {}
               ELSE /\ gpc' = "configs"
                    /\ jtodo' = IF Has(config, "jobs")
                                THEN {<<cfgPath, j>> : j \in DOMAIN config["jobs"]}
                                ELSE {}
    /\ UNCHANGED <<cfgs, evars, pvars, fvars>>

\* One iteration of the inner loop over config['jobs'].values().
AddJob ==
    /\ gpc = "configs"
    /\ \E pj \in jtodo :
         LET r == addDep(workloads, cfgs[pj[1]]["jobs"][pj[2]])
         IN /\ workloads' = r.workloads
            /\ jtodo' = jtodo \ {pj}
            /\ gpc' = IF r.ok THEN "configs" ELSE "error"
    /\ UNCHANGED <<cfgs, gtodo, evars, pvars, fvars>>

\* return loader
ReturnLoader ==
    /\ gpc = "configs" /\ gtodo = {} /\ jtodo = {}
    /\ gpc' = "done"
    /\ UNCHANGED <<cfgs, workloads, gtodo, jtodo, evars, pvars, fvars>>

buildDepGraph == DefineDistros \/ AddConfig \/ AddJob \/ ReturnLoader

-----------------------------------------------------------------------------
(* Reading the configs and the task list *)

\* Every workload config the builder visits: the non-distro configs and
\* their jobs.
WorkloadConfigs ==
    LET tops == {cfgs[k] : k \in DOMAIN cfgs \ Range(distros)}
    IN tops \cup UNION {{c["jobs"][j] : j \in DOMAIN c["jobs"]} :
                          c \in {t \in tops : Has(t, "jobs")}}

TasksNamed(n) == {t \in Range(workloads) : t.name = n}

\* A task dict without the key has no dependencies of that kind.
TaskDepsOf(t) == IF "task_dep" \in DOMAIN t THEN Range(t.task_dep) ELSE {}
FileDepsOf(t) == IF "file_dep" \in DOMAIN t THEN Range(t.file_dep) ELSE {}

InitramfsName(c) == c["bin"] \o "-initramfs"

CfgNamed(n) == CHOOSE c \in WorkloadConfigs : c["name"] = n

\* The task names one step along task_dep edges from the tasks named n.
Succ(n) == UNION {TaskDepsOf(t) : t \in TasksNamed(n)}

RECURSIVE ReachSet(_, _)
ReachSet(S, k) ==
    LET S2 == S \cup UNION {Succ(n) : n \in S}
    IN IF k = 0 \/ S2 = S THEN S ELSE ReachSet(S2, k - 1)

-----------------------------------------------------------------------------
(* handleBuild and the executor it hands the graph to *)

\* A handleBuild that asks for the initramfs binary of every config.
BinTargets_AlwaysInitramfs(config) == <<config["bin"], InitramfsName(config)>>

\* The targets of one config, binaries and images apart.
BinTargets(config) ==
    <<config["bin"]>> \o (IF Has(config, "initramfs") THEN <<InitramfsName(config)>> ELSE <<>>)

ImgTargets(config) == IF Has(config, "img") THEN <<config["img"]>> ELSE <<>>

\* config['jobs'].values(), in the dict's order.
RECURSIVE JobList(_, _)
JobList(jobs, keys) ==
    IF keys = {} THEN <<>>
    ELSE LET k == CHOOSE x \in keys : TRUE
         IN <<jobs[k]>> \o JobList(jobs, keys \ {k})

RECURSIVE Flatten(_)
Flatten(ss) == IF ss = <<>> THEN <<>> ELSE Head(ss) \o Flatten(Tail(ss))

\* A handleBuild that builds every job whatever -j names.
SelectedJobs_All(config, job) ==
    IF ~Has(config, "jobs") THEN <<>>
    ELSE JobList(config["jobs"], DOMAIN config["jobs"])

\* The jobs handleBuild builds: all of them, or the one named.
SelectedJobs(config, job) ==
    IF ~Has(config, "jobs") THEN <<>>
    ELSE IF job = "all" THEN JobList(config["jobs"], DOMAIN config["jobs"])
    ELSE <<config["jobs"][job]>>

binList(config, job) ==
    BinTargets(config)
    \o Flatten([i \in 1..Len(SelectedJobs(config, job)) |->
                  BinTargets(SelectedJobs(config, job)[i])])

imgList(config, job) ==
    ImgTargets(config)
    \o Flatten([i \in 1..Len(SelectedJobs(config, job)) |->
                  ImgTargets(SelectedJobs(config, job)[i])])

\* The tasks the executor has to bring up to date: the targets and
\* everything they reach along task_dep.
Needed == ReachSet(Range(requested), Len(workloads))

\* handleBuild, once buildDepGraph has returned: the lists, then
\* DoitMain(loader).run(binList + imgList).  A job that is not in
\* config['jobs'] raises KeyError; the executor refuses a task list with a
\* duplicate name or a dependency that names no task.
handleBuild ==
    /\ epc = "graph" /\ gpc = "done"
    /\ LET config == cfgs[args.config_file]
           badJob == Has(config, "jobs") /\ args.job # "all"
                     /\ args.job \notin DOMAIN config["jobs"]
           targets == binList(config, args.job) \o imgList(config, args.job)
           needed == ReachSet(Range(targets), Len(workloads))
       IN IF badJob THEN epc' = "aborted" /\ requested' = <<>>
          ELSE /\ requested' = targets
               /\ epc' = IF /\ \A n \in needed : Cardinality(TasksNamed(n)) = 1
                            /\ \A i, j \in 1..Len(workloads) :
                                 workloads[i].name = workloads[j].name => i = j
                         THEN "run" ELSE "aborted"
    /\ UNCHANGED <<cfgs, gvars, args, doneTasks, cur, built, inv, pvars, fvars>>

\* The executor runs one task at a time, and a task only when the tasks it
\* depends on are done.  The order among the others is not defined.
Ready(t) ==
    /\ epc = "run" /\ pc = "idle" /\ cur = ""
    /\ t.name \in Needed \ doneTasks
    /\ TaskDepsOf(t) \subseteq doneTasks

\* An image as the distro's builder produces it.
Pristine == [hook |-> None, files |-> {}, ran |-> <<>>]

\* The action of a base-distro task.
buildBaseImage ==
    /\ \E t \in Range(workloads) :
         /\ Ready(t) /\ t.action[1] = "buildBaseImage"
         /\ image' = (t.name :> Pristine) @@ image
         /\ doneTasks' = doneTasks \cup {t.name}
         /\ built' = built \cup {t.name}
    /\ UNCHANGED <<cfgs, gvars, args, epc, requested, cur, inv, pvars, exists, bins, fresh>>

\* A makeBin without the check of the distro: a config with no kernel config
\* is taken as pre-built whatever its distro.
makeBin_NoCheck ==
    /\ \E t \in Range(workloads), ok \in BOOLEAN :
         /\ Ready(t) /\ t.action[1] = "makeBin"
         /\ LET config == CfgNamed(t.action[2])
                initramfs == t.action[3]
                raises == IF Has(config, "linux-config")
                          THEN (initramfs /\ ~Has(config, "img")) \/ ~ok
                          ELSE FALSE
            IN /\ Has(config, "linux-config") \/ ok
               /\ IF raises
                  THEN /\ epc' = "aborted" /\ built' = built \ {t.name}
                       /\ UNCHANGED <<bins, doneTasks>>
                  ELSE /\ bins' = IF Has(config, "linux-config")
                                  THEN bins \cup {t.name} ELSE bins
                       /\ doneTasks' = doneTasks \cup {t.name}
                       /\ built' = built \cup {t.name}
                       /\ epc' = epc
    /\ UNCHANGED <<cfgs, gvars, args, requested, cur, inv, pvars, image, exists, fresh>>

\* The action of a binary task: makeBin(config, initramfs), with the build
\* subprocesses succeeding or not.
makeBin ==
    /\ \E t \in Range(workloads), ok \in BOOLEAN :
         /\ Ready(t) /\ t.action[1] = "makeBin"
         /\ LET config == CfgNamed(t.action[2])
                initramfs == t.action[3]
                raises == IF Has(config, "linux-config")
                          THEN (initramfs /\ ~Has(config, "img")) \/ ~ok
                          ELSE config["distro"] # "bare"
            IN /\ Has(config, "linux-config") \/ ok
               /\ IF raises
                  THEN /\ epc' = "aborted" /\ built' = built \ {t.name}
                       /\ UNCHANGED <<bins, doneTasks>>
                  ELSE /\ bins' = IF Has(config, "linux-config")
                                  THEN bins \cup {t.name} ELSE bins
                       /\ doneTasks' = doneTasks \cup {t.name}
                       /\ built' = built \cup {t.name}
                       /\ epc' = epc
    /\ UNCHANGED <<cfgs, gvars, args, requested, cur, inv, pvars, image, exists, fresh>>

\* The executor calls makeImage(config): the task is not up to date, and is
\* recorded as up to date again only when makeImage returns.
StartMakeImage ==
    /\ \E t \in Range(workloads) :
         /\ Ready(t) /\ t.action[1] = "makeImage"
         /\ cur' = t.action[2]
         /\ built' = built \ {t.name}
    /\ pc' = "seed"
    /\ trace' = <<>>
    /\ UNCHANGED <<cfgs, gvars, args, epc, requested, doneTasks, inv,
                   af, mounted, emu, fvars>>

Ev(e, a, b) == [ev |-> e, a |-> a, b |-> b]

\* makeImage has returned: the task is done.
TaskDone ==
    /\ pc = "done"
    /\ LET img == CfgNamed(cur)["img"]
       IN /\ doneTasks' = doneTasks \cup {img}
          /\ built' = built \cup {img}
          /\ fresh' = IF trace[1] = Ev("seed", img, "fresh") /\ img \notin DOMAIN fresh
                      THEN (img :> image[img]) @@ fresh ELSE fresh
    /\ pc' = "idle" /\ cur' = ""
    /\ UNCHANGED <<cfgs, gvars, args, epc, requested, inv, af, trace, mounted, emu,
                   image, exists, bins>>

\* Every needed task is done: the run ends.
Finish ==
    /\ epc = "run" /\ pc = "idle" /\ Needed \subseteq doneTasks
    /\ epc' = "finished"
    /\ UNCHANGED <<cfgs, gvars, args, requested, doneTasks, cur, built, inv, pvars, fvars>>

Executor == buildBaseImage \/ makeBin \/ StartMakeImage \/ TaskDone \/ Finish

\* In a later invocation the executor may judge a task that succeeded before
\* up to date and not run it.
SkipUpToDate ==
    /\ \E t \in Range(workloads) :
         /\ Ready(t) /\ t.name \in built
         /\ doneTasks' = doneTasks \cup {t.name}
    /\ UNCHANGED <<cfgs, gvars, args, epc, requested, cur, built, inv, pvars, fvars>>

\* The process has ended: the graph builder raised, the executor stopped on a
\* failed task, or the run completed.
ProcessEnded == gpc = "error" \/ epc \in {"finished", "aborted"} \/ pc = "failed"

\* The build command is invoked again with the same command line and configs:
\* a new process, on the host as the last one left it.
Reinvoke ==
    /\ ProcessEnded /\ inv < MaxRuns
    /\ inv' = inv + 1
    /\ workloads' = <<>> /\ gpc' = "distros" /\ gtodo' = {} /\ jtodo' = {}
    /\ epc' = "graph" /\ requested' = <<>> /\ doneTasks' = {} /\ cur' = ""
    /\ pc' = "idle" /\ af' = NoAf /\ trace' = <<>> /\ emu' = FALSE
    /\ UNCHANGED <<cfgs, args, built, mounted, fvars>>

-----------------------------------------------------------------------------
(* Boot-script overlays and what an image holds *)

\* Every script a config names, and the script genRunScript writes.
GenScript == "gen/run.sh"

genRunScript(command) == GenScript

ScriptUniverse ==
    {GenScript}
    \cup UNION {{c[k] : k \in {"host_init", "init"} \cap DOMAIN c} : c \in WorkloadConfigs}
    \cup {c["runSpec"].path : c \in {x \in WorkloadConfigs : Has(x, "runSpec")}}

\* builder.generateBootScriptOverlay(script): the overlay directory whose
\* content, copied to /, makes the image run script at boot; for None the
\* overlay removes the boot hook.
generateBootScriptOverlay(script) == "overlay/" \o script

\* os.path.join(overlay, "*")
OverlayGlob(overlay) == overlay \o "/*"

IsBootOverlay(src) ==
    \E s \in ScriptUniverse \cup {None} : OverlayGlob(generateBootScriptOverlay(s)) = src

\* The boot hook an overlay source installs (None: it removes the hook).
HookOf(src) ==
    CHOOSE s \in ScriptUniverse \cup {None} : OverlayGlob(generateBootScriptOverlay(s)) = src

\* rsync of one entry into the mounted file system: a boot-script overlay
\* replaces the boot hook, any other source replaces what is at its
\* destination.
Rsync(content, f) ==
    IF IsBootOverlay(f.src)
    THEN [content EXCEPT !.hook = HookOf(f.src)]
    ELSE [content EXCEPT !.files = {q \in @ : q[1] # f.dst} \cup {<<f.dst, f.src>>}]

\* One boot of the image to completion: the boot hook, if any, runs once.
Booted(content) ==
    IF content.hook = None THEN content
    ELSE [content EXCEPT !.ran = Append(@, content.hook)]

-----------------------------------------------------------------------------
(* applyFiles and applyOverlay *)

CurCfg == CfgNamed(cur)

\* makeImage calls applyFiles(img, files); on return it goes on at ret, and
\* stage ends is then complete ("" when the stage has more to do).
CallApplyFiles(img, files, ret, ends) ==
    /\ pc' = "apply"
    /\ af' = [pc |-> "mount", img |-> img, files |-> files, i |-> 1, raised |-> FALSE,
              ret |-> ret, ends |-> ends]

\* applyOverlay(img, overlay)
CallApplyOverlay(img, overlay, ret, ends) ==
    CallApplyFiles(img, <<FileSpec(OverlayGlob(overlay), "/")>>, ret, ends)

\* run(['sudo', 'mount', '-o', 'loop', img, mnt]), before the try: a failed
\* mount raises and nothing is mounted.
AfMount ==
    /\ pc = "apply" /\ af.pc = "mount"
    /\ \E ok \in BOOLEAN :
         IF ok
         THEN /\ mounted' = Append(mounted, af.img)
              /\ trace' = Append(trace, Ev("mount", af.img, ""))
              /\ af' = [af EXCEPT !.pc = "loop"]
              /\ pc' = pc
         ELSE /\ pc' = "failed" /\ af' = NoAf
              /\ UNCHANGED <<mounted, trace>>
    /\ UNCHANGED <<cfgs, gvars, evars, emu, fvars>>

\* An applyFiles without try/finally: a failed copy raises at once.
AfCopy_NoFinally ==
    /\ pc = "apply" /\ af.pc = "loop" /\ af.i <= Len(af.files)
    /\ \E ok \in BOOLEAN :
         IF ok
         THEN /\ image' = [image EXCEPT ![mounted[Len(mounted)]] = Rsync(@, af.files[af.i])]
              /\ trace' = Append(trace, Ev("copy", af.files[af.i].src, af.files[af.i].dst))
              /\ af' = [af EXCEPT !.i = @ + 1]
              /\ pc' = pc
         ELSE /\ pc' = "failed" /\ af' = NoAf
              /\ UNCHANGED <<image, trace>>
    /\ UNCHANGED <<cfgs, gvars, evars, mounted, emu, exists, bins, fresh>>

\* An applyFiles that notes a failed copy and goes on with the next entry.
AfCopy_ContinueOnError ==
    /\ pc = "apply" /\ af.pc = "loop" /\ af.i <= Len(af.files)
    /\ \E ok \in BOOLEAN :
         IF ok
         THEN /\ image' = [image EXCEPT ![mounted[Len(mounted)]] = Rsync(@, af.files[af.i])]
              /\ trace' = Append(trace, Ev("copy", af.files[af.i].src, af.files[af.i].dst))
              /\ af' = [af EXCEPT !.i = @ + 1]
         ELSE /\ af' = [af EXCEPT !.i = @ + 1, !.raised = TRUE]
              /\ trace' = Append(trace, Ev("copy-failed", af.files[af.i].src, af.files[af.i].dst))
              /\ image' = image
    /\ UNCHANGED <<cfgs, gvars, evars, pc, mounted, emu, exists, bins, fresh>>

\* One iteration of the loop: rsync of entry i into what is mounted on mnt.
\* A failed rsync raises: the remaining entries are skipped and control goes
\* to the finally clause.
AfCopy ==
    /\ pc = "apply" /\ af.pc = "loop" /\ af.i <= Len(af.files)
    /\ \E ok \in BOOLEAN :
         IF ok
         THEN /\ image' = [image EXCEPT ![mounted[Len(mounted)]] = Rsync(@, af.files[af.i])]
              /\ trace' = Append(trace, Ev("copy", af.files[af.i].src, af.files[af.i].dst))
              /\ af' = [af EXCEPT !.i = @ + 1]
         ELSE /\ af' = [af EXCEPT !.pc = "finally", !.raised = TRUE]
              /\ trace' = Append(trace, Ev("copy-failed", af.files[af.i].src, af.files[af.i].dst))
              /\ image' = image
    /\ UNCHANGED <<cfgs, gvars, evars, pc, mounted, emu, exists, bins, fresh>>

\* An applyFiles that returns without unmounting.
AfUmount_Skip ==
    /\ pc = "apply"
    /\ \/ af.pc = "finally"
       \/ af.pc = "loop" /\ af.i > Len(af.files)
    /\ pc' = IF af.raised THEN "failed" ELSE af.ret
    /\ trace' = IF af.raised \/ af.ends = "" THEN trace
                ELSE Append(trace, Ev("end", af.ends, ""))
    /\ af' = NoAf
    /\ UNCHANGED <<cfgs, gvars, evars, mounted, emu, fvars>>

\* finally: run(['sudo', 'umount', mnt]), then applyFiles returns, or the
\* exception of the failed copy goes on to the caller.
AfUmount ==
    /\ pc = "apply"
    /\ \/ af.pc = "finally"
       \/ af.pc = "loop" /\ af.i > Len(af.files)
    /\ mounted' = SubSeq(mounted, 1, Len(mounted) - 1)
    /\ pc' = IF af.raised THEN "failed" ELSE af.ret
    /\ trace' = Append(trace, Ev("umount", af.img, ""))
                \o (IF af.raised \/ af.ends = "" THEN <<>> ELSE <<Ev("end", af.ends, "")>>)
    /\ af' = NoAf
    /\ UNCHANGED <<cfgs, gvars, evars, emu, fvars>>

applyFiles == AfMount \/ AfCopy \/ AfUmount

-----------------------------------------------------------------------------
(* makeImage *)

\* A makeImage whose file-overlay block comes after the target-init block.
StageOrder_FilesLate == <<"seed", "host_init", "init", "files", "runspec", "done">>

\* The blocks of makeImage in program order.
StageOrder == <<"seed", "host_init", "files", "init", "runspec", "done">>

\* The block that follows block p.
After(p) == StageOrder[1 + CHOOSE i \in 1..Len(StageOrder) : StageOrder[i] = p]

\* What makeImage finds at the image path: no file ("fresh"), the image a
\* makeImage on a fresh path delivered ("assembled"), or anything else
\* ("dirty").
Found(img) ==
    IF img \notin DOMAIN image THEN "fresh"
    ELSE IF img \in DOMAIN fresh /\ image[img] = fresh[img] THEN "assembled"
    ELSE "dirty"

\* A makeImage that keeps an image file it finds at the image path.
Seed_KeepExisting ==
    /\ pc = "seed"
    /\ LET config == CurCfg
       IN IF ~Has(config, "base-img") \/ config["base-img"] \notin DOMAIN image
          THEN /\ pc' = "failed"
               /\ trace' = <<Ev("seed", config["img"], "failed")>>
               /\ image' = image
          ELSE /\ image' = IF config["img"] \in DOMAIN image THEN image
                           ELSE (config["img"] :> image[config["base-img"]]) @@ image
               /\ trace' = <<Ev("seed", config["img"], Found(config["img"])),
                             Ev("end", "Seed", "")>>
               /\ pc' = After("seed")
    /\ UNCHANGED <<cfgs, gvars, evars, af, mounted, emu, exists, bins, fresh>>

\* shutil.copy(config['base-img'], config['img']): raises when the config has
\* no base image or the file is missing, else the image file is replaced by
\* a copy of the base image.
Seed ==
    /\ pc = "seed"
    /\ LET config == CurCfg
       IN IF ~Has(config, "base-img") \/ config["base-img"] \notin DOMAIN image
          THEN /\ pc' = "failed"
               /\ trace' = <<Ev("seed", config["img"], "failed")>>
               /\ image' = image
          ELSE /\ image' = (config["img"] :> image[config["base-img"]]) @@ image
               /\ trace' = <<Ev("seed", config["img"], Found(config["img"])),
                             Ev("end", "Seed", "")>>
               /\ pc' = After("seed")
    /\ UNCHANGED <<cfgs, gvars, evars, af, mounted, emu, exists, bins, fresh>>

\* if 'host_init' in config: the script must exist, then it is run on the
\* host; it may leave the target-init script behind, and it may fail.
HostInit ==
    /\ pc = "host_init"
    /\ LET config == CurCfg
       IN IF ~Has(config, "host_init")
          THEN pc' = After("host_init") /\ UNCHANGED <<trace, exists>>
          ELSE IF config["host_init"] \notin exists
          THEN /\ pc' = "failed"
               /\ trace' = Append(trace, Ev("stage", "HostInit", ""))
               /\ exists' = exists
          ELSE \E out \in {"ok", "makes-init", "fails"} :
                 /\ out = "makes-init" => Has(config, "init") /\ config["init"] \notin exists
                 /\ exists' = IF out = "makes-init" THEN exists \cup {config["init"]}
                              ELSE exists
                 /\ trace' = trace \o <<Ev("stage", "HostInit", ""),
                                        Ev("run", config["host_init"], config["workdir"])>>
                                   \o (IF out = "fails" THEN <<>>
                                       ELSE <<Ev("end", "HostInit", "")>>)
                 /\ pc' = IF out = "fails" THEN "failed" ELSE After("host_init")
    /\ UNCHANGED <<cfgs, gvars, evars, af, mounted, emu, image, bins, fresh>>

\* if 'files' in config: applyFiles(config['img'], config['files'])
Files ==
    /\ pc = "files"
    /\ LET config == CurCfg
       IN IF ~Has(config, "files")
          THEN pc' = After("files") /\ UNCHANGED <<af, trace>>
          ELSE /\ trace' = Append(trace, Ev("stage", "Files", ""))
               /\ CallApplyFiles(config["img"], config["files"], After("files"), "Files")
    /\ UNCHANGED <<cfgs, gvars, evars, mounted, emu, fvars>>

\* A makeImage that looks for the target-init script only after the emulator
\* has run.
TargetInit_NoCheck ==
    /\ pc = "init"
    /\ LET config == CurCfg
       IN IF ~Has(config, "init")
          THEN pc' = After("init") /\ UNCHANGED <<af, trace>>
          ELSE /\ trace' = Append(trace, Ev("stage", "TargetInit", ""))
               /\ CallApplyOverlay(config["img"], generateBootScriptOverlay(config["init"]),
                                   "boot", "")
    /\ UNCHANGED <<cfgs, gvars, evars, mounted, emu, fvars>>

\* if 'init' in config: the script must exist; then the init overlay is
\* generated and applied.
TargetInit ==
    /\ pc = "init"
    /\ LET config == CurCfg
       IN IF ~Has(config, "init")
          THEN pc' = After("init") /\ UNCHANGED <<af, trace>>
          ELSE IF config["init"] \notin exists
          THEN /\ pc' = "failed"
               /\ trace' = Append(trace, Ev("stage", "TargetInit", ""))
               /\ af' = af
          ELSE /\ trace' = Append(trace, Ev("stage", "TargetInit", ""))
               /\ CallApplyOverlay(config["img"], generateBootScriptOverlay(config["init"]),
                                   "boot", "")
    /\ UNCHANGED <<cfgs, gvars, evars, mounted, emu, fvars>>

\* A launchQemu that starts the emulator and does not wait for it.
LaunchQemu_NoWait ==
    /\ pc = "boot"
    /\ emu' = TRUE
    /\ trace' = Append(trace, Ev("boot", CurCfg["bin"], CurCfg["img"]))
    /\ pc' = "clear"
    /\ UNCHANGED <<cfgs, gvars, evars, af, mounted, fvars>>

\* launchQemu(config): sp.check_call spawns the emulator on config['bin'] and
\* the image and blocks.
LaunchQemu ==
    /\ pc = "boot"
    /\ emu' = TRUE
    /\ trace' = Append(trace, Ev("boot", CurCfg["bin"], CurCfg["img"]))
    /\ pc' = "emu"
    /\ UNCHANGED <<cfgs, gvars, evars, af, mounted, fvars>>

\* The emulator session ends and check_call returns, or raises on a non-zero
\* exit status.  A session that ends well has run the boot hook.
QemuExit ==
    /\ pc = "emu" /\ emu
    /\ emu' = FALSE
    /\ \E ok \in BOOLEAN :
         /\ image' = IF ok THEN [image EXCEPT ![CurCfg["img"]] = Booted(@)] ELSE image
         /\ trace' = Append(trace, Ev(IF ok THEN "exit" ELSE "exit-failed", CurCfg["bin"], ""))
         /\ pc' = IF ok THEN "clear" ELSE "failed"
    /\ UNCHANGED <<cfgs, gvars, evars, af, mounted, exists, bins, fresh>>

\* A makeImage that leaves the init overlay in place.
ClearInit_Skip ==
    /\ pc = "clear"
    /\ pc' = After("init")
    /\ trace' = Append(trace, Ev("end", "TargetInit", ""))
    /\ UNCHANGED <<cfgs, gvars, evars, af, mounted, emu, fvars>>

\* A makeImage that generates the second overlay from the init script again.
ClearInit_Reapply ==
    /\ pc = "clear"
    /\ CallApplyOverlay(CurCfg["img"], generateBootScriptOverlay(CurCfg["init"]),
                        After("init"), "TargetInit")
    /\ UNCHANGED <<cfgs, gvars, evars, trace, mounted, emu, fvars>>

\* Clear the init script: generateBootScriptOverlay(None), applied.
ClearInit ==
    /\ pc = "clear"
    /\ CallApplyOverlay(CurCfg["img"], generateBootScriptOverlay(None),
                        After("init"), "TargetInit")
    /\ UNCHANGED <<cfgs, gvars, evars, trace, mounted, emu, fvars>>

\* if 'runSpec' in config: the script is the one generated for the command or
\* the one at spec.path; it must exist; its overlay is generated and applied.
RunSpec ==
    /\ pc = "runspec"
    /\ LET config == CurCfg
       IN IF ~Has(config, "runSpec")
          THEN pc' = After("runspec") /\ UNCHANGED <<af, trace, exists>>
          ELSE LET spec == config["runSpec"]
                   scriptPath == IF spec.command # None THEN genRunScript(spec.command)
                                 ELSE spec.path
                   ex == IF spec.command # None THEN exists \cup {scriptPath} ELSE exists
               IN /\ exists' = ex
                  /\ trace' = Append(trace, Ev("stage", "RunSpec", ""))
                  /\ IF scriptPath \notin ex
                     THEN pc' = "failed" /\ af' = af
                     ELSE CallApplyOverlay(config["img"],
                                           generateBootScriptOverlay(scriptPath),
                                           After("runspec"), "RunSpec")
    /\ UNCHANGED <<cfgs, gvars, evars, mounted, emu, image, bins, fresh>>

makeImage ==
    Seed \/ HostInit \/ Files \/ TargetInit \/ LaunchQemu \/ QemuExit \/ ClearInit
    \/ RunSpec \/ applyFiles

-----------------------------------------------------------------------------
(* The graph builder run on every set of configs *)

\* The state of a process that has parsed its command line and loaded cfgs,
\* on a host where nothing is built or mounted yet.
Start(cs, ex) ==
    /\ cfgs = cs
    /\ workloads = <<>> /\ gpc = "distros" /\ gtodo = {} /\ jtodo = {}
    /\ args = [config_file |-> "w", job |-> "all"]
    /\ epc = "graph" /\ requested = <<>> /\ doneTasks = {} /\ cur = ""
    /\ built = {} /\ inv = 1
    /\ pc = "idle" /\ af = NoAf /\ trace = <<>> /\ mounted = <<>> /\ emu = FALSE
    /\ image = E /\ exists = ex /\ bins = {} /\ fresh = E

GraphInit ==
    \E ch \in GraphChoices, v \in BOOLEAN :
       \E js \in {E} \cup {JobsOf("w", ch.img, jch) : jch \in JobChoices} :
          Start(CfgSet(ch, js, v), {})

GraphNext == buildDepGraph

SpecGraph == GraphInit /\ [][GraphNext]_vars

-----------------------------------------------------------------------------
(* One invocation of the build command *)

\* The combinations of keys that matter to makeImage, for the target w.
PipeChoices ==
    { [img |-> TRUE, base |-> TRUE, lc |-> TRUE, ir |-> FALSE, files |-> f, hi |-> h,
       init |-> n, rs |-> r, cf |-> TRUE, distro |-> "br"] :
         f \in FilesChoices, h \in BOOLEAN, n \in BOOLEAN,
         r \in {"absent", "command", "path"} }
    \cup
    { [img |-> TRUE, base |-> FALSE, lc |-> TRUE, ir |-> FALSE, files |-> NoFiles,
       hi |-> FALSE, init |-> FALSE, rs |-> "absent", cf |-> TRUE, distro |-> "br"] }

\* The combinations its job is given.
PipeJobChoices ==
    { [img |-> TRUE, base |-> TRUE, lc |-> TRUE, ir |-> i, files |-> NoFiles, hi |-> FALSE,
       init |-> n, rs |-> r, cf |-> TRUE, distro |-> "br"] :
         i \in BOOLEAN, n \in BOOLEAN, r \in {"absent", "path"} } \ 
    { [img |-> TRUE, base |-> TRUE, lc |-> TRUE, ir |-> i, files |-> NoFiles, hi |-> FALSE,
       init |-> TRUE, rs |-> "path", cf |-> TRUE, distro |-> "br"] : i \in BOOLEAN }

\* The scripts config c names.
ScriptsOf(c) ==
    {c[k] : k \in {"host_init", "init"} \cap DOMAIN c}
    \cup (IF Has(c, "runSpec") /\ c["runSpec"].path # None THEN {c["runSpec"].path} ELSE {})

\* The combinations of kernel config and distro that matter to makeBin, for
\* a target with no image, and for one whose image waits for the binary.
BinChoices ==
    { [img |-> m, base |-> m, lc |-> l, ir |-> FALSE, files |-> NoFiles, hi |-> FALSE,
       init |-> m, rs |-> "absent", cf |-> TRUE, distro |-> d] :
         m \in BOOLEAN, l \in BOOLEAN, d \in {"br", "bare"} }

\* Any of the target's scripts may be missing; its job's scripts exist.
PipeInit ==
    \E ch \in PipeChoices \cup BinChoices :
       \E js \in {E} \cup {JobsOf("w", TRUE, jch) : jch \in PipeJobChoices} :
          \E ex \in SUBSET ScriptsOf(Cfg("w", ImgPath("br"), ch, E)) :
             Start(CfgSet(ch, js, FALSE),
                   ex \cup (IF DOMAIN js = {} THEN {} ELSE ScriptsOf(js[JobName("w", "j0")])))

Next == buildDepGraph \/ handleBuild \/ Executor \/ makeImage

Spec == PipeInit /\ [][Next]_vars

-----------------------------------------------------------------------------
(* The build command invoked again and again *)

\* The job, when there is one: a target-init script and no run-spec.
RerunJob ==
    [img |-> TRUE, base |-> TRUE, lc |-> TRUE, ir |-> FALSE, files |-> NoFiles, hi |-> FALSE,
     init |-> TRUE, rs |-> "absent", cf |-> TRUE, distro |-> "br"]

\* The target when it has a job: a target-init script and a run command.
RerunParent ==
    [img |-> TRUE, base |-> TRUE, lc |-> TRUE, ir |-> FALSE, files |-> NoFiles, hi |-> FALSE,
     init |-> TRUE, rs |-> "command", cf |-> TRUE, distro |-> "br"]

\* Either the target alone, with every combination of keys and any of its
\* scripts missing, or a target with a job built on its image.
RerunInit ==
    \/ \E ch \in PipeChoices :
          \E ex \in SUBSET ScriptsOf(Cfg("w", ImgPath("br"), ch, E)) :
             Start(CfgSet(ch, E, FALSE), ex)
    \/ LET js == JobsOf("w", TRUE, RerunJob)
       IN Start(CfgSet(RerunParent, js, FALSE),
                ScriptsOf(Cfg("w", ImgPath("br"), RerunParent, E))
                \cup ScriptsOf(js[JobName("w", "j0")]))

RerunNext == Next \/ SkipUpToDate \/ Reinvoke

SpecRerun == RerunInit /\ [][RerunNext]_vars

-----------------------------------------------------------------------------
(* main, and the launch command *)

\* targetCfg['initramfs'] = True
SetInitramfs(c) == ("initramfs" :> TRUE) @@ c

\* if args.initramfs: the target and every one of its jobs is flagged.
FlagInitramfs(targetCfg) ==
    LET t == SetInitramfs(targetCfg)
    IN IF Has(t, "jobs")
       THEN ("jobs" :> [j \in DOMAIN t["jobs"] |-> SetInitramfs(t["jobs"][j])]) @@ t
       ELSE t

\* A main that hands the job name on as it was typed.
InternalJob_NoPrefix(targetCfg, job) == job

\* Jobs are named with their base config internally: the name given with -j
\* is prefixed when the target has jobs; otherwise a message is printed and
\* the name is left as it is.
InternalJob(targetCfg, job) ==
    IF job # "all" /\ Has(targetCfg, "jobs") THEN targetCfg["name"] \o "-" \o job
    ELSE job

\* main, from the parsed command line to the call of args.func(args, cfgs).
main ==
    /\ epc = "main"
    /\ LET targetCfg == cfgs[args.config_file]
       IN /\ cfgs' = IF args.initramfs
                     THEN [cfgs EXCEPT ![args.config_file] = FlagInitramfs(targetCfg)]
                     ELSE cfgs
          /\ args' = [args EXCEPT !.job = InternalJob(targetCfg, @)]
    /\ epc' = IF args.command = "build" THEN "graph" ELSE "launch"
    /\ gpc' = IF args.command = "build" THEN "distros" ELSE gpc
    /\ UNCHANGED <<workloads, gtodo, jtodo, requested, doneTasks, cur, built, inv,
                   pvars, fvars>>

\* handleLaunch: the config to run is the job named or the base config; spike
\* is refused for a config with an image and no 'initramfs' key (sys.exit),
\* else the simulator's launcher is called.  A job that is not in
\* config['jobs'] raises KeyError.
handleLaunch ==
    /\ epc = "launch"
    /\ LET baseConfig == cfgs[args.config_file]
           useJob == Has(baseConfig, "jobs") /\ args.job # "all"
       IN IF useJob /\ args.job \notin DOMAIN baseConfig["jobs"]
          THEN epc' = "aborted" /\ cur' = cur
          ELSE LET config == IF useJob THEN baseConfig["jobs"][args.job] ELSE baseConfig
               IN /\ cur' = config["name"]
                  /\ epc' = IF ~args.spike THEN "qemu"
                            ELSE IF Has(config, "img") /\ ~Has(config, "initramfs")
                            THEN "sysexit" ELSE "spike"
    /\ UNCHANGED <<cfgs, gvars, args, requested, doneTasks, built, inv, pvars, fvars>>

\* A launchSpike that starts spike on whatever it is given.
launchSpike_NoCheck ==
    /\ epc = "spike"
    /\ emu' = TRUE
    /\ trace' = Append(trace, Ev("spike", InitramfsName(CurCfg), ""))
    /\ epc' = "simulating"
    /\ UNCHANGED <<cfgs, gvars, args, requested, doneTasks, cur, built, inv,
                   pc, af, mounted, fvars>>

\* launchSpike(config, args.initramfs): spike is spawned on the initramfs
\* binary, or ValueError is raised for a disk-based configuration.
launchSpike ==
    /\ epc = "spike"
    /\ IF args.initramfs \/ ~Has(CurCfg, "img")
       THEN /\ emu' = TRUE
            /\ trace' = Append(trace, Ev("spike", InitramfsName(CurCfg), ""))
            /\ epc' = "simulating"
       ELSE /\ epc' = "aborted"
            /\ UNCHANGED <<emu, trace>>
    /\ UNCHANGED <<cfgs, gvars, args, requested, doneTasks, cur, built, inv,
                   pc, af, mounted, fvars>>

\* launchQemu(config, args.initramfs), called by handleLaunch: qemu is
\* spawned on the binary, with the image as drive unless the initramfs
\* version is run.
launchQemu ==
    /\ epc = "qemu"
    /\ LET config == CurCfg
           exe == IF args.initramfs THEN InitramfsName(config) ELSE config["bin"]
           drive == IF Has(config, "img") /\ ~args.initramfs THEN config["img"] ELSE ""
       IN trace' = Append(trace, Ev("qemu", exe, drive))
    /\ emu' = TRUE
    /\ epc' = "simulating"
    /\ UNCHANGED <<cfgs, gvars, args, requested, doneTasks, cur, built, inv,
                   pc, af, mounted, fvars>>

\* sp.check_call returns when the simulator exits, or raises on a non-zero
\* exit status.
SimulatorExit ==
    /\ epc = "simulating" /\ emu
    /\ emu' = FALSE
    /\ \E ok \in BOOLEAN : epc' = IF ok THEN "finished" ELSE "aborted"
    /\ UNCHANGED <<cfgs, gvars, args, requested, doneTasks, cur, built, inv,
                   pc, af, trace, mounted, fvars>>

\* The short job names a command line may give, one of them naming no job.
ShortNames == {"j0", "j1"}
JobArgs == {"all", "jX"} \cup ShortNames

\* The command lines: build, or launch on qemu or spike, each with or
\* without -i.
CliArgs ==
    { [command |-> "build", config_file |-> "w", job |-> j, spike |-> FALSE,
       initramfs |-> i] : j \in JobArgs, i \in BOOLEAN }
    \cup
    { [command |-> "launch", config_file |-> "w", job |-> j, spike |-> s,
       initramfs |-> i] : j \in JobArgs, s \in BOOLEAN, i \in BOOLEAN }

\* The combinations of keys that matter to the command line's handling.
CliChoices ==
    { [img |-> m, base |-> m, lc |-> TRUE, ir |-> i, files |-> NoFiles, hi |-> FALSE,
       init |-> m, rs |-> "absent", cf |-> TRUE, distro |-> "br"] :
         m \in BOOLEAN, i \in BOOLEAN }

\* Two jobs of the target.
CliJobs(parentHasImg, c0, c1) ==
    (JobName("w", "j0") :> Cfg(JobName("w", "j0"), JobBase(parentHasImg, "w"), c0, E))
    @@ (JobName("w", "j1") :> Cfg(JobName("w", "j1"), JobBase(parentHasImg, "w"), c1, E))

\* The state of a process that has parsed its command line a and loaded cfgs.
StartMain(cs, a) ==
    /\ cfgs = cs
    /\ workloads = <<>> /\ gpc = "wait" /\ gtodo = {} /\ jtodo = {}
    /\ args = a
    /\ epc = "main" /\ requested = <<>> /\ doneTasks = {} /\ cur = ""
    /\ built = {} /\ inv = 1
    /\ pc = "idle" /\ af = NoAf /\ trace = <<>> /\ mounted = <<>> /\ emu = FALSE
    /\ image = E /\ exists = {} /\ bins = {} /\ fresh = E

CliInit ==
    \E ch \in CliChoices, v \in BOOLEAN, a \in CliArgs :
       \E js \in {E} \cup {CliJobs(ch.img, c0, c1) : c0, c1 \in CliChoices} :
          StartMain(CfgSet(ch, js, v), a)

CliNext ==
    main \/ buildDepGraph \/ handleBuild \/ handleLaunch \/ launchSpike \/ launchQemu
    \/ SimulatorExit

SpecCli == CliInit /\ [][CliNext]_vars

-----------------------------------------------------------------------------
(* What the graph claims speak of *)

\* No task reaches itself along task_dep edges.
Acyclic ==
    \A t \in Range(workloads) : t.name \notin ReachSet(Succ(t.name), Len(workloads))

\* C5: in the finished graph, the initramfs-binary node of every workload with
\* initramfs and an image waits for the workload's image node, the image node
\* of every workload with a target-init script waits for the workload's binary
\* node, and no task depends on itself along task-dep edges, at any point of
\* the construction.
C5_DepsAndAcyclic ==
    /\ Acyclic
    /\ gpc = "done" =>
         \A c \in WorkloadConfigs :
            /\ (Has(c, "initramfs") /\ Has(c, "img")) =>
                 /\ TasksNamed(InitramfsName(c)) # {}
                 /\ TasksNamed(c["img"]) # {}
                 /\ \A t \in TasksNamed(InitramfsName(c)) : c["img"] \in TaskDepsOf(t)
            /\ (Has(c, "init") /\ Has(c, "img")) =>
                 /\ TasksNamed(c["img"]) # {}
                 /\ TasksNamed(c["bin"]) # {}
                 /\ \A t \in TasksNamed(c["img"]) : c["bin"] \in TaskDepsOf(t)

\* A finished graph of a workload with initramfs, an image and a target-init
\* script, whose image is itself built on another workload's image.
C5_Witness ==
    /\ gpc = "done"
    /\ "v" \in DOMAIN cfgs
    /\ \E c \in WorkloadConfigs :
         /\ Has(c, "initramfs") /\ Has(c, "img") /\ Has(c, "init") /\ Has(c, "base-img")
         /\ Has(c, "jobs")

\* The file-deps the image node of c is to have, with or without the
\* config-identity file.
ExpectedImgFileDeps(c, withCfgFile) ==
    (IF Has(c, "base-img") THEN {c["base-img"]} ELSE {})
    \cup (IF Has(c, "files")
          THEN UNION { IF isdir(f.src) THEN Range(DirTree[f.src]) ELSE {f.src} :
                       f \in Range(c["files"]) }
          ELSE {})
    \cup (IF Has(c, "init") THEN {c["init"]} ELSE {})
    \cup (IF Has(c, "runSpec") /\ c["runSpec"].path # None THEN {c["runSpec"].path} ELSE {})
    \cup (IF withCfgFile THEN {c["cfg-file"]} ELSE {})

ExpectedImgTaskDeps(c) ==
    (IF Has(c, "base-img") THEN {c["base-img"]} ELSE {})
    \cup (IF Has(c, "init") THEN {c["bin"]} ELSE {})

\* C9 as stated: the image node of every workload with an image has the
\* config-identity file among its file-deps, whatever the config holds.
C9_Original ==
    gpc = "done" =>
      \A c \in {x \in WorkloadConfigs : Has(x, "img")} :
         /\ Has(c, "cfg-file")
         /\ \A t \in TasksNamed(c["img"]) :
               /\ FileDepsOf(t) = ExpectedImgFileDeps(c, TRUE)
               /\ TaskDepsOf(t) = ExpectedImgTaskDeps(c)

\* C9, amended: in the finished graph the image node of every workload with an
\* image has as file-deps exactly the base image (if set), every file under
\* each directory overlay source and each other overlay source itself, the
\* target-init script (if set), the run-spec script path (if runSpec has one)
\* and the config-identity file if the config has a 'cfg-file' key; and as
\* task-deps exactly the base image's node (if set) and the workload's binary
\* node (if a target-init script is set).
C9_ImageNodeDeps ==
    gpc = "done" =>
      \A c \in {x \in WorkloadConfigs : Has(x, "img")} :
         /\ TasksNamed(c["img"]) # {}
         /\ \A t \in TasksNamed(c["img"]) :
               /\ FileDepsOf(t) = ExpectedImgFileDeps(c, Has(c, "cfg-file"))
               /\ TaskDepsOf(t) = ExpectedImgTaskDeps(c)

\* A finished graph of a workload with a base image, a directory overlay and a
\* file overlay, a target-init script, a run-spec script and no 'cfg-file'.
C9_Witness ==
    /\ gpc = "done"
    /\ LET c == cfgs["w"]
       IN /\ Has(c, "img") /\ Has(c, "base-img") /\ Has(c, "init")
          /\ ~Has(c, "cfg-file")
          /\ Has(c, "runSpec") /\ c["runSpec"].path # None
          /\ Has(c, "files")
          /\ \E f, g \in Range(c["files"]) : isdir(f.src) /\ ~isdir(g.src)

\* C10 as stated: an initramfs-binary node exists only for a workload with
\* initramfs and an image, its file-deps are the image and the kernel config
\* if present, its task-deps are the image node alone; and for every other
\* workload graph construction still succeeds.
C10_Original ==
    /\ gpc # "error"
    /\ gpc = "done" =>
         \A c \in WorkloadConfigs :
            /\ TasksNamed(InitramfsName(c)) # {} <=> (Has(c, "initramfs") /\ Has(c, "img"))
            /\ \A t \in TasksNamed(InitramfsName(c)) :
                  /\ FileDepsOf(t) = {c["img"]} \cup (IF Has(c, "linux-config")
                                                    THEN {c["linux-config"]} ELSE {})
                  /\ TaskDepsOf(t) = {c["img"]}

\* The places in the task list of the nodes made for config c.
NodesOf(c) ==
    {i \in 1..Len(workloads) :
        /\ workloads[i].action[1] \in {"makeBin", "makeImage"}
        /\ workloads[i].action[2] = c["name"]}

\* A workload with no image path and no way to build a binary.
Unbuildable(c) ==
    ~Has(c, "img") /\ ~Has(c, "linux-config") /\ c["distro"] # "bare"

\* C11 as stated: a workload with neither an image path nor a way to build a
\* binary has no node in the graph buildDepGraph returns.
C11_Original ==
    gpc = "done" => \A c \in WorkloadConfigs : Unbuildable(c) => NodesOf(c) = {}

\* C11, amended: in the graph buildDepGraph returns, a workload with neither an
\* image path nor a way to build a binary has exactly one node, its binary
\* node, named by the binary path, with the non-initramfs makeBin as action
\* and no file-deps and no task-deps.
C11_BinaryNodeOnly ==
    gpc = "done" =>
      \A c \in WorkloadConfigs :
         Unbuildable(c) =>
            /\ Cardinality(NodesOf(c)) = 1
            /\ \A i \in NodesOf(c) :
                  /\ workloads[i].name = c["bin"]
                  /\ workloads[i].targets = <<c["bin"]>>
                  /\ workloads[i].action = <<"makeBin", c["name"], FALSE>>
                  /\ FileDepsOf(workloads[i]) = {}
                  /\ TaskDepsOf(workloads[i]) = {}

\* A finished graph over a target that is unbuildable and has an unbuildable
\* job.
C11_Witness ==
    /\ gpc = "done"
    /\ Unbuildable(cfgs["w"])
    /\ Has(cfgs["w"], "jobs")
    /\ \E j \in DOMAIN cfgs["w"]["jobs"] : Unbuildable(cfgs["w"]["jobs"][j])

-----------------------------------------------------------------------------
(* What the pipeline claims speak of *)

Last(s) == s[Len(s)]

\* The places of the events of kind e in the trace of the current makeImage.
Events(e) == {i \in 1..Len(trace) : trace[i].ev = e}

InitGlob(c) == OverlayGlob(generateBootScriptOverlay(c["init"]))
ClearGlob == OverlayGlob(generateBootScriptOverlay(None))

\* The script the run-spec stage of c installs.
RunScriptOf(c) ==
    IF c["runSpec"].command # None THEN genRunScript(c["runSpec"].command)
    ELSE c["runSpec"].path

Occurrences(s, x) == Cardinality({i \in 1..Len(s) : s[i] = x})

\* C1: while a makeImage runs, from the moment the init overlay has been
\* applied until the emulator has exited the boot hook of the image is the
\* target-init script; once the clearing overlay has been copied the hook is
\* not the target-init script; and when makeImage returns the hook is the
\* run-spec script if runSpec is set, and otherwise no hook (target-init set)
\* or the base image's hook, never the target-init script, which has run
\* exactly once.
C1_InitHookCleared ==
    cur # "" =>
      LET c == CurCfg
          content == image[c["img"]]
      IN /\ pc \in {"boot", "emu"} => Has(c, "init") /\ content.hook = c["init"]
         /\ (\E i \in Events("copy") : trace[i].a = ClearGlob) =>
               Has(c, "init") /\ content.hook # c["init"]
         /\ pc = "done" =>
              /\ IF Has(c, "runSpec") THEN content.hook = RunScriptOf(c)
                 ELSE IF Has(c, "init") THEN content.hook = None
                 ELSE content.hook = image[c["base-img"]].hook
              /\ Has(c, "init") =>
                   content.hook # c["init"] /\ Occurrences(content.ran, c["init"]) = 1

\* makeImage has returned for a workload with a target-init script and a
\* run-spec: the emulator has run the script, and the hook is the run script.
C1_Witness ==
    /\ cur # "" /\ pc = "done"
    /\ Has(CurCfg, "init") /\ Has(CurCfg, "runSpec")
    /\ Events("exit") # {}
    /\ image[CurCfg["img"]].hook = RunScriptOf(CurCfg)

\* C2: whenever no applyFiles call is in progress, after a return as after a
\* raise, nothing is mounted on the mount point; and inside a call whose mount
\* succeeded exactly the call's image is mounted.
C2_AlwaysUnmounts ==
    /\ af.pc = "none" => mounted = <<>>
    /\ af.pc \in {"loop", "finally"} => mounted = <<af.img>>

\* applyFiles has raised after a failed copy of the second entry, and the
\* mount point is free.
C2_Witness ==
    /\ pc = "failed" /\ af.pc = "none" /\ mounted = <<>>
    /\ Len(trace) > 3
    /\ Last(trace).ev = "umount"
    /\ trace[Len(trace) - 1].ev = "copy-failed"
    /\ trace[Len(trace) - 2].ev = "copy"

StageRank(s) ==
    CASE s = "Seed" -> 1 [] s = "HostInit" -> 2 [] s = "Files" -> 3
      [] s = "TargetInit" -> 4 [] s = "RunSpec" -> 5

\* The config key that enables a stage.
StageKey(s) ==
    CASE s = "HostInit" -> "host_init" [] s = "Files" -> "files"
      [] s = "TargetInit" -> "init" [] s = "RunSpec" -> "runSpec"

\* The places where a stage starts, and the stage that starts there.
StageStarts == Events("seed") \cup Events("stage")
StageAt(i) == IF trace[i].ev = "seed" THEN "Seed" ELSE trace[i].a

\* C3: in every makeImage the first thing done is Seed; stages start in the
\* order Seed, Host-init, File-overlay, Target-init, Run-spec install; a stage
\* other than Seed starts only if its config key is set; a stage starts only
\* after every stage started before it has completed; and when makeImage
\* returns every stage whose key is set has run and completed.
C3_StageOrder ==
    cur # "" =>
      /\ pc # "seed" => trace # <<>> /\ trace[1].ev = "seed"
      /\ \A i \in Events("seed") : i = 1
      /\ \A j \in StageStarts :
            /\ StageAt(j) # "Seed" => Has(CurCfg, StageKey(StageAt(j)))
            /\ \A i \in StageStarts :
                 i < j => /\ StageRank(StageAt(i)) < StageRank(StageAt(j))
                          /\ \E k \in (i + 1)..(j - 1) : trace[k] = Ev("end", StageAt(i), "")
      /\ pc = "done" =>
           \A s \in {"HostInit", "Files", "TargetInit", "RunSpec"} :
              Has(CurCfg, StageKey(s)) =>
                 /\ \E j \in StageStarts : StageAt(j) = s
                 /\ \E k \in Events("end") : trace[k].a = s

\* makeImage has returned after running all five stages.
C3_Witness ==
    /\ cur # "" /\ pc = "done"
    /\ {StageAt(j) : j \in StageStarts} = {"Seed", "HostInit", "Files", "TargetInit", "RunSpec"}

\* C4: in one makeImage the emulator is booted at most once and only when a
\* target-init script is set, and exactly once in a makeImage that returns
\* with a target-init script set; the boot comes right after the init overlay
\* was copied and unmounted, the next thing makeImage does is to see the
\* emulator exit, so the clearing overlay is mounted only after that; and
\* nothing is mounted while the emulator runs.
C4_BootOnceBlocking ==
    /\ emu => mounted = <<>> /\ pc = "emu"
    /\ cur # "" =>
         /\ Cardinality(Events("boot")) <= 1
         /\ Events("boot") # {} => Has(CurCfg, "init")
         /\ pc = "done" =>
              Cardinality(Events("boot")) = IF Has(CurCfg, "init") THEN 1 ELSE 0
         /\ \A i \in Events("boot") :
              /\ i > 3
              /\ trace[i - 1] = Ev("umount", CurCfg["img"], "")
              /\ trace[i - 2] = Ev("copy", InitGlob(CurCfg), "/")
              /\ trace[i - 3] = Ev("mount", CurCfg["img"], "")
              /\ i < Len(trace) => trace[i + 1].ev \in {"exit", "exit-failed"}
              /\ \A k \in Events("copy") : trace[k].a = ClearGlob => k > i + 1

\* The clearing overlay is mounted after the one boot of the emulator.
C4_Witness ==
    /\ cur # "" /\ pc = "apply" /\ af.pc = "loop"
    /\ af.files = <<FileSpec(ClearGlob, "/")>>
    /\ Cardinality(Events("boot")) = 1 /\ Events("exit") # {}
    /\ ~emu

\* The script stage pc is about to start needs and does not find.
MissingScript ==
    /\ cur # ""
    /\ \/ pc = "host_init" /\ Has(CurCfg, "host_init") /\ CurCfg["host_init"] \notin exists
       \/ pc = "init" /\ Has(CurCfg, "init") /\ CurCfg["init"] \notin exists
       \/ pc = "runspec" /\ Has(CurCfg, "runSpec") /\ CurCfg["runSpec"].command = None
          /\ CurCfg["runSpec"].path \notin exists

\* C6: when makeImage reaches a stage whose script is missing, its next step
\* is to fail: no script is run, no overlay is applied, nothing is mounted,
\* the emulator is not started, and the images and the host's files are as
\* the earlier stages left them; and a failed makeImage does nothing more.
C6_MissingScriptAborts ==
    [][ /\ MissingScript =>
            /\ pc' = "failed"
            /\ image' = image /\ exists' = exists /\ bins' = bins
            /\ af' = af /\ mounted' = mounted /\ emu' = emu
            /\ trace' = Append(trace, Ev("stage", CASE pc = "host_init" -> "HostInit"
                                                    [] pc = "init" -> "TargetInit"
                                                    [] pc = "runspec" -> "RunSpec", ""))
        /\ pc = "failed" => pc' = "failed" /\ image' = image /\ trace' = trace
      ]_vars

\* makeImage has failed on a missing target-init script after the host-init
\* script ran and the file list was applied: the image holds the files and
\* no boot hook.
C6_Witness ==
    /\ cur # "" /\ pc = "failed"
    /\ Last(trace) = Ev("stage", "TargetInit", "")
    /\ Events("run") # {} /\ Events("copy") # {}
    /\ image[CurCfg["img"]].files # {}
    /\ image[CurCfg["img"]].hook = None
    /\ Events("boot") = {} /\ ~emu /\ mounted = <<>>

\* C8: at every moment of a build invocation at most one image is mounted on
\* the mount point.
C8_OneMount == Len(mounted) <= 1

\* The image of the job is mounted after the target's makeImage, with its
\* mounts, has completed.
C8_Witness ==
    /\ Len(mounted) = 1
    /\ cur # "" /\ CurCfg["img"] # ImgPath("w")
    /\ ImgPath("w") \in doneTasks
    /\ Has(cfgs["w"], "files") /\ Has(cfgs["w"], "init")

\* C7: whenever a makeImage returns, on an image path that held an assembled
\* image or a dirty one, the image it leaves is the image that the makeImage
\* which found no file at that path delivered.
C7_Idempotent ==
    (cur # "" /\ pc = "done" /\ CurCfg["img"] \in DOMAIN fresh) =>
       image[CurCfg["img"]] = fresh[CurCfg["img"]]

\* A makeImage with file overlays, a target-init script and a run-spec
\* returns on a path left dirty by an aborted makeImage, after an earlier one
\* delivered the image on the fresh path.
C7_Witness ==
    /\ cur # "" /\ pc = "done"
    /\ CurCfg["img"] \in DOMAIN fresh
    /\ trace[1] = Ev("seed", CurCfg["img"], "dirty")
    /\ Has(CurCfg, "files") /\ Has(CurCfg, "init") /\ Has(CurCfg, "runSpec")
    /\ Has(CurCfg, "host_init")

-----------------------------------------------------------------------------
(* What the claims about binaries speak of *)

BinTasks == {t \in Range(workloads) : t.action[1] = "makeBin"}

KernelCfg(c) == Has(c, "linux-config")
Bare(c) == c["distro"] = "bare"

\* C12 as stated: a binary task succeeds only for a workload for which
\* exactly one of {kernel config present, distro bare} holds, and a failing
\* one produces no binary.
C12_Original ==
    [][ /\ \A t \in BinTasks :
             t.name \in doneTasks' \ doneTasks =>
                (KernelCfg(CfgNamed(t.action[2])) # Bare(CfgNamed(t.action[2])))
        /\ (epc = "run" /\ epc' = "aborted") => bins' = bins
      ]_vars

\* C12, amended: a binary task succeeds only for a workload that has a
\* kernel config or is based on bare (both may hold); when it succeeds with a
\* kernel config the binary is there, and without one no binary is produced;
\* a failing one produces no binary and completes no task, and it is never
\* the task of a bare workload without kernel config.
C12_MakeBin ==
    [][ /\ \A t \in BinTasks :
             LET c == CfgNamed(t.action[2])
             IN t.name \in doneTasks' \ doneTasks =>
                  /\ KernelCfg(c) \/ Bare(c)
                  /\ bins' = IF KernelCfg(c) THEN bins \cup {t.name} ELSE bins
        /\ (epc = "run" /\ epc' = "aborted") =>
              /\ bins' = bins /\ doneTasks' = doneTasks
              /\ \E t \in BinTasks :
                    /\ Ready(t)
                    /\ KernelCfg(CfgNamed(t.action[2])) \/ ~Bare(CfgNamed(t.action[2]))
      ]_vars

\* The binary of a bare workload with a kernel config has been built.
C12_Witness ==
    \E t \in BinTasks :
       /\ KernelCfg(CfgNamed(t.action[2])) /\ Bare(CfgNamed(t.action[2]))
       /\ t.name \in doneTasks /\ t.name \in bins

\* C13: whenever the makeImage of workload c has booted the emulator, or the
\* emulator is running, c's binary task is among the tasks the executor has
\* completed or judged up to date in this invocation.
C13_BootAfterBinary ==
    (cur # "" /\ (Events("boot") # {} \/ pc = "emu" \/ emu)) =>
       /\ CurCfg["bin"] \in doneTasks
       /\ \A t \in TasksNamed(CurCfg["img"]) : CurCfg["bin"] \in TaskDepsOf(t)

\* In a later invocation the emulator runs on the job's binary, after the
\* target's own image with its target-init script was dealt with.
C13_Witness ==
    /\ inv > 1 /\ emu /\ pc = "emu"
    /\ cur = JobName("w", "j0")
    /\ CurCfg["bin"] \in doneTasks
    /\ ImgPath("w") \in doneTasks /\ Has(cfgs["w"], "init")

-----------------------------------------------------------------------------
(* What the claims about the command line speak of *)

\* C14: in a launch with --spike and without -i, once handleLaunch has picked
\* a config that has an image, no simulator is ever spawned: handleLaunch
\* exits with its message, or launchSpike is called and raises.
C14_SpikeRejectsDisk ==
    (args.command = "launch" /\ args.spike /\ ~args.initramfs
     /\ cur # "" /\ Has(CurCfg, "img")) =>
       /\ ~emu
       /\ Events("spike") = {} /\ Events("qemu") = {}
       /\ epc \in {"spike", "sysexit", "aborted"}

\* launchSpike has raised for a job that has an image and the 'initramfs'
\* key, launched on spike without -i.
C14_Witness ==
    /\ args.command = "launch" /\ args.spike /\ ~args.initramfs
    /\ cur = JobName("w", "j1")
    /\ Has(CurCfg, "img") /\ Has(CurCfg, "initramfs")
    /\ epc = "aborted" /\ ~emu /\ trace = <<>>

\* The top-level workloads that have jobs.
Parents == {k \in DOMAIN cfgs \ Range(distros) : Has(cfgs[k], "jobs")}

\* Every job is known, as key of its parent's jobs and by its own name, as
\* <parentName>-<shortName>; and two jobs of different parents with the same
\* short name differ in key, in name and in the ids of all their nodes.
JobIds ==
    /\ \A p \in Parents : \A k \in DOMAIN cfgs[p]["jobs"] :
          /\ cfgs[p]["jobs"][k]["name"] = k
          /\ \E sn \in ShortNames : k = cfgs[p]["name"] \o "-" \o sn
    /\ \A p1, p2 \in Parents : \A sn \in ShortNames :
          LET k1 == cfgs[p1]["name"] \o "-" \o sn
              k2 == cfgs[p2]["name"] \o "-" \o sn
          IN (p1 # p2 /\ k1 \in DOMAIN cfgs[p1]["jobs"] /\ k2 \in DOMAIN cfgs[p2]["jobs"]) =>
                /\ k1 # k2
                /\ cfgs[p1]["jobs"][k1]["name"] # cfgs[p2]["jobs"][k2]["name"]
                /\ \A i \in NodesOf(cfgs[p1]["jobs"][k1]), j \in NodesOf(cfgs[p2]["jobs"][k2]) :
                      workloads[i].name # workloads[j].name

\* C15: main turns a job name given for a target with jobs into the target's
\* name, a hyphen and the name given, and leaves it alone otherwise; the
\* build and the launch command look the job up under that key (a key that
\* names no job ends the command); and after every step every job's
\* identifier is <parentName>-<shortName>, jobs of different parents with
\* the same short name differing in identifier and in node ids.
C15_JobIdentifier ==
    [][ LET target == cfgs[args.config_file]
            named == Has(target, "jobs") /\ args.job # "all"
        IN /\ epc = "main" =>
                args'.job = IF named THEN target["name"] \o "-" \o args.job ELSE args.job
           /\ (epc = "launch" /\ named) =>
                IF args.job \in DOMAIN target["jobs"]
                THEN cur' = args.job /\ cur' = target["jobs"][args.job]["name"]
                ELSE epc' = "aborted"
           /\ (epc = "graph" /\ gpc = "done" /\ named) =>
                IF args.job \in DOMAIN target["jobs"]
                THEN target["jobs"][args.job]["bin"] \in Range(requested')
                ELSE epc' = "aborted" /\ requested' = <<>>
           /\ JobIds'
      ]_vars

\* The build of job j0 of the target has been handed to the executor, in a
\* graph that also holds the nodes of job j0 of another workload.
C15_Witness ==
    /\ args.command = "build" /\ epc = "run"
    /\ args.job = JobName("w", "j0")
    /\ BinPath(JobName("w", "j0")) \in Range(requested)
    /\ "v" \in DOMAIN cfgs
    /\ TasksNamed(BinPath(JobName("v", "j0"))) # {}
    /\ BinPath(JobName("v", "j0")) \notin Range(requested)

\* The artifacts of one config: its binary, its image if it has one, its
\* initramfs binary if it is flagged.
Art(c) ==
    {c["bin"]}
    \cup (IF Has(c, "img") THEN {c["img"]} ELSE {})
    \cup (IF Has(c, "initramfs") THEN {c["bin"] \o "-initramfs"} ELSE {})

\* The artifacts of a top-level workload and of all its jobs.
ArtAll(c) ==
    Art(c) \cup (IF Has(c, "jobs")
                 THEN UNION {Art(c["jobs"][k]) : k \in DOMAIN c["jobs"]} ELSE {})

\* C16: what handleBuild hands to the executor is, each once, the artifacts
\* of the target, plus those of every job of the target when job is 'all',
\* plus those of the job named and of no other job when one is named; no
\* artifact of another workload is among them, though the graph holds the
\* other workload's nodes.
C16_RequestsOnlyTarget ==
    requested # <<>> =>
      LET target == cfgs[args.config_file]
          jobs == IF Has(target, "jobs") THEN target["jobs"] ELSE E
      IN /\ \A i, j \in 1..Len(requested) : requested[i] = requested[j] => i = j
         /\ Art(target) \subseteq Range(requested)
         /\ IF args.job = "all"
            THEN Range(requested) = ArtAll(target)
            ELSE \A k \in DOMAIN jobs :
                   IF k = args.job
                   THEN Range(requested) = Art(target) \cup Art(jobs[k])
                   ELSE Art(jobs[k]) \cap Range(requested) = {}
         /\ (DOMAIN jobs = {}) => Range(requested) = Art(target)
         /\ \A o \in DOMAIN cfgs \ (Range(distros) \cup {args.config_file}) :
               /\ ArtAll(cfgs[o]) \cap Range(requested) = {}
               /\ \A n \in ArtAll(cfgs[o]) : TasksNamed(n) # {}

\* With -i and -j j1, the binary, initramfs binary and image of the target
\* and of its job j1 are handed to the executor, in a graph that holds job j0
\* and another workload as well.
C16_Witness ==
    /\ args.command = "build" /\ epc = "run"
    /\ args.initramfs /\ args.job = JobName("w", "j1")
    /\ "v" \in DOMAIN cfgs
    /\ Cardinality(Range(requested)) = 6
    /\ TasksNamed(BinPath(JobName("w", "j0"))) # {}
    /\ InitramfsName(cfgs["w"]["jobs"][JobName("w", "j1")]) \in Range(requested)

-----------------------------------------------------------------------------
(* What the claims about overlays and the delivered image speak of *)

IsPrefix(a, b) == Len(a) <= Len(b) /\ a = SubSeq(b, 1, Len(a))

\* What applyFiles(img, files) does when every copy succeeds, and when the
\* copy of entry k fails.
CopyEvents(files, k) == [i \in 1..k |-> Ev("copy", files[i].src, files[i].dst)]

FullRun(img, files) ==
    <<Ev("mount", img, "")>> \o CopyEvents(files, Len(files)) \o <<Ev("umount", img, "")>>

FailedRun(img, files, k) ==
    <<Ev("mount", img, "")>> \o CopyEvents(files, k - 1)
    \o <<Ev("copy-failed", files[k].src, files[k].dst), Ev("umount", img, "")>>

\* The files of an image after the entries were copied onto content base in
\* listed order: per destination the last entry, else what the base held.
LastWins(base, files) ==
    {q \in base : \A i \in 1..Len(files) : files[i].dst # q[1]}
    \cup {<<files[i].dst, files[i].src>> :
            i \in {i \in 1..Len(files) : \A j \in (i + 1)..Len(files) :
                                             files[j].dst # files[i].dst}}

\* C17: what the applyFiles call of the file-overlay stage does is, in this
\* order, one mount of the image, the copies of the entries in listed order,
\* one unmount, and then the image holds per destination the last entry
\* listed for it; or, when the copy of entry k fails, one mount, the copies
\* of the entries before k, the failed copy, one unmount and nothing more,
\* makeImage having failed; a failed mount ends the call with nothing done.
C17_ApplyFilesInOrder ==
    (cur # "" /\ \E i \in Events("stage") : trace[i].a = "Files") =>
       LET c == CurCfg
           img == c["img"]
           files == c["files"]
           s == CHOOSE i \in Events("stage") : trace[i].a = "Files"
           ends == {i \in Events("end") : trace[i].a = "Files"}
           seg == SubSeq(trace, s + 1,
                         IF ends = {} THEN Len(trace) ELSE (CHOOSE i \in ends : TRUE) - 1)
       IN IF ends # {}
          THEN /\ seg = FullRun(img, files)
               /\ image[img].files = LastWins(image[c["base-img"]].files, files)
          ELSE IF pc = "failed"
          THEN seg = <<>> \/ \E k \in 1..Len(files) : seg = FailedRun(img, files, k)
          ELSE /\ pc = "apply" /\ af.img = img /\ af.files = files
               /\ Len(seg) < Len(FullRun(img, files))
               /\ \/ IsPrefix(seg, FullRun(img, files))
                  \/ \E k \in 1..Len(files) :
                        /\ IsPrefix(seg, FailedRun(img, files, k))
                        /\ Len(seg) < Len(FailedRun(img, files, k))

\* The file-overlay stage has completed for a list of two different entries
\* with the same destination: the image holds the second.
C17_Witness ==
    /\ cur # "" /\ pc # "failed"
    /\ Has(CurCfg, "files") /\ Len(CurCfg["files"]) = 2
    /\ CurCfg["files"][1] # CurCfg["files"][2]
    /\ \E i \in Events("end") : trace[i].a = "Files"
    /\ image[CurCfg["img"]].files = {<<CurCfg["files"][2].dst, CurCfg["files"][2].src>>}

-----------------------------------------------------------------------------
(* What the claims about node ids and references speak of *)

\* C18: at every point of the construction no two entries of the task list
\* have the same name or a target in common; in particular the nodes of a
\* job differ from those of its parent, and the image node of a workload
\* from the base-image nodes of the distros.
C18_UniqueNodeIds ==
    /\ \A i, j \in 1..Len(workloads) :
          (workloads[i].name = workloads[j].name
           \/ Range(workloads[i].targets) \cap Range(workloads[j].targets) # {}) => i = j
    /\ \A p \in Parents : \A k \in DOMAIN cfgs[p]["jobs"] :
          \A i \in NodesOf(cfgs[p]), j \in NodesOf(cfgs[p]["jobs"][k]) :
             workloads[i].name # workloads[j].name
    /\ \A c \in WorkloadConfigs : \A i \in NodesOf(c) : \A j \in 1..Len(workloads) :
          workloads[j].action[1] = "buildBaseImage" => workloads[i].name # workloads[j].name

\* A finished graph of eleven nodes: the distro's image, the three nodes of
\* the target and of its job, and the two nodes each of a second workload and
\* of its job.
C18_Witness ==
    /\ gpc = "done"
    /\ Len(workloads) = 11
    /\ "v" \in DOMAIN cfgs /\ "w" \in Parents
    /\ Cardinality(NodesOf(cfgs["w"])) = 3

\* C19: in the graph buildDepGraph returns every name in a task's task-deps
\* is the name of a task of the graph, and every target handleBuild hands to
\* the executor is the name of a task of the graph built for the same
\* configs.
C19_ClosedUnderReferences ==
    /\ gpc = "done" =>
         \A t \in Range(workloads) : \A d \in TaskDepsOf(t) : TasksNamed(d) # {}
    /\ requested # <<>> =>
         /\ gpc = "done"
         /\ \A n \in Range(requested) : Cardinality(TasksNamed(n)) = 1

\* With -i given, the initramfs binaries of the target and of both its jobs
\* are handed to the executor, each the name of a task whose task-dep, the
\* image, is a task as well.
C19_Witness ==
    /\ args.command = "build" /\ args.initramfs /\ args.job = "all"
    /\ epc = "run" /\ gpc = "done"
    /\ "w" \in Parents
    /\ \A c \in {cfgs["w"]} \cup {cfgs["w"]["jobs"][k] : k \in DOMAIN cfgs["w"]["jobs"]} :
          /\ InitramfsName(c) \in Range(requested)
          /\ \E t \in TasksNamed(InitramfsName(c)) : TaskDepsOf(t) = {c["img"]}
          /\ \E t \in TasksNamed(c["img"]) : c["bin"] \in TaskDepsOf(t)

\* The makeImage of a workload with a target-init script has terminated,
\* by return or by an error, and there is an image at the image path.
TerminatedWithInit ==
    /\ cur # "" /\ pc \in {"done", "failed"}
    /\ Has(CurCfg, "init")
    /\ CurCfg["img"] \in DOMAIN image

\* C20 as stated: whenever makeImage has terminated, normally or by an error,
\* the boot hook of the image at the image path is not the target-init
\* script.
C20_Original ==
    TerminatedWithInit => image[CurCfg["img"]].hook # CurCfg["init"]

\* C20, amended: when makeImage has returned, the boot hook of the image is
\* not the target-init script; when it has terminated at all, the hook is the
\* target-init script exactly if makeImage failed after the init overlay was
\* copied and before the clearing overlay was copied.
C20_HookLeftOnlyByAbort ==
    TerminatedWithInit =>
       /\ pc = "done" => image[CurCfg["img"]].hook # CurCfg["init"]
       /\ image[CurCfg["img"]].hook = CurCfg["init"] <=>
             /\ pc = "failed"
             /\ \E i \in Events("copy") : trace[i].a = InitGlob(CurCfg)
             /\ \A i \in Events("copy") : trace[i].a # ClearGlob

\* makeImage has failed on the emulator's exit status: the image is left
\* with the target-init script as boot hook.
C20_Witness ==
    /\ TerminatedWithInit /\ pc = "failed"
    /\ Last(trace).ev = "exit-failed"
    /\ image[CurCfg["img"]].hook = CurCfg["init"]

====
